---- MODULE Spec2Model ----
(***************************************************************************)
(* A model of tools/funcslower.py (the latency tracer) and                 *)
(* tools/profile_slower.py (the sampling profiler): the BPF hooks          *)
(* trace_entry, trace_return and do_perf_event, the maps they share        *)
(* (entryinfo, counts, stack_traces, the events perf buffer) and the       *)
(* Python reporting side (print_event / print_stack, the output loop).     *)
(***************************************************************************)
EXTENDS Integers, Sequences, FiniteSets, TLC

VARIABLES
    args,          \* the parsed command line (argparse namespace)
    now,           \* bpf_ktime_get_ns(): the monotonic clock
    entryinfo,     \* BPF_HASH(entryinfo, u64, struct entry_t)
    stack_traces,  \* BPF_STACK_TRACE(stack_traces, ...): bucket -> stored stack
    retctx,        \* funcslower, per thread: the trace_return in flight, if any
    events,        \* BPF_PERF_OUTPUT(events): records submitted, not yet polled
    lost,          \* records the perf buffer refused because it was full
    earliest_ts,   \* funcslower.py: the global of time_str
    counts,        \* BPF_HASH(counts, struct key_t): the profiler's table
    cpuctx,        \* profile_slower, per thread: the do_perf_event in flight
    phase,         \* "run" while the hooks are attached, "done" after the report
    out,           \* what the reporting side printed for the last item / report
    recent,        \* per thread: the entries recorded since its last matched
                   \* return finished, latest first
    missed,        \* a return hook has found no pending call
    nentry,        \* number of entry hooks that ran
    nslow,         \* matched tracer returns whose duration reached DURATION_NS
    nsubmit,       \* number of events.perf_submit calls
    nhit,          \* ticks that passed the filter and found a pending call
    nold,          \* those of them whose pending call was DURATION_NS old
    nstale         \* stores of a count that some other tick had changed since
                   \* it was loaded

tracerVars == <<retctx, events, lost, earliest_ts, nslow, nsubmit>>
profVars == <<counts, cpuctx, phase, nhit, nold, nstale>>
vars == <<args, now, entryinfo, stack_traces, tracerVars, profVars, out, recent,
          missed, nentry>>

(***************************************************************************)
(* Bounds of the model.                                                    *)
(***************************************************************************)
MaxEntries == 2        \* entry hooks per run
MaxPending == 2        \* capacity of entryinfo in the model
PerfBufCap == 1        \* records the perf buffer holds before it drops
MaxTicks == 3          \* ticks per run that find a pending call

\* bpf_get_current_pid_tgid() of the threads that run hooks: <<tgid, pid>>,
\* the upper and the lower 32 bits of the u64.
Threads == { <<1, 1>>, <<1, 2>>, <<2, 3>> }
Tgid(t) == t[1]
\* bpf_get_current_comm(): threads of one process may carry the same name.
Comm(t) == IF Tgid(t) = 1 THEN "w" ELSE "x"

\* Clock readings; the clock never goes back.
TimePoints == { 1, 2, 1000001, 1000002 }

\* Probe ids: the index of the traced function in args.functions.
ProbeIds == { 0, 1 }

\* Register contents at function entry (PT_REGS_PARM1..6).
ArgVectors == { <<0, 0, 0, 0, 0, 0>>, <<7, 8, 9, 10, 11, 12>> }

\* An option that was not given is <<>>, a given one is <<value>>.
NotGiven == << >>
Truthy(o) == o # NotGiven /\ o[1] # 0

\* A thread that is in no hook; the holder of a map element nobody holds.
Idle == [pc |-> "idle"]
Free == <<0, 0>>

(***************************************************************************)
(* funcslower.py: the command line.                                        *)
(***************************************************************************)
\* -m / -u are floats; the model writes them in thousandths.
FloatDen == 1000
\* int(x): truncation toward zero of num / FloatDen.
IntTrunc(num) ==
    IF num >= 0 THEN num \div FloatDen ELSE -((-num) \div FloatDen)

\* duration_ns of funcslower.py
TracerDurationNs(a) ==
    IF Truthy(a.min_ms) THEN IntTrunc(a.min_ms[1] * 1000000)
    ELSE IF Truthy(a.min_us) THEN IntTrunc(a.min_us[1] * 1000)
    ELSE 1000000

\* duration_ns of profile_slower.py
ProfilerDurationNs == 1000000

IsTracer(a) == a.tool = "funcslower"
DURATION_NS == IF IsTracer(args) THEN TracerDurationNs(args) ELSE ProfilerDurationNs

\* "#define GRAB_ARGS" (funcslower only; profile_slower never defines it)
GRAB_ARGS == IsTracer(args) /\ Truthy(args.arguments)
USER_STACKS == IsTracer(args) /\ args.user_stack
KERNEL_STACKS == IsTracer(args) /\ args.kernel_stack

\* TGID_FILTER: 'tgid != %d' when -p was given to funcslower, else '0'.
TGID_FILTER(t) ==
    IF IsTracer(args) /\ Truthy(args.tgid) THEN Tgid(t) # args.tgid[1] ELSE FALSE

(***************************************************************************)
(* BPF_HASH: a set of [key, val] pairs with at most one pair per key.      *)
(***************************************************************************)
MapHas(m, k) == \E p \in m : p.key = k
MapLookup(m, k) == (CHOOSE p \in m : p.key = k).val
MapDelete(m, k) == { p \in m : p.key # k }
\* an update that adds a pair and leaves the pairs of the key in place
MapAdd(m, k, v, cap) ==
    IF Cardinality(m) >= cap THEN m ELSE m \cup { [key |-> k, val |-> v] }
\* an insert that keeps the value of a present key (BPF_NOEXIST)
MapInsertOnly(m, k, v, cap) ==
    IF MapHas(m, k) \/ Cardinality(m) >= cap THEN m
    ELSE m \cup { [key |-> k, val |-> v] }
\* map.update(): replaces the value of a present key; a new key needs a free
\* element and fails (-E2BIG, which the hooks ignore) when the map is full.
MapUpdate(m, k, v, cap) ==
    IF MapHas(m, k) THEN MapDelete(m, k) \cup { [key |-> k, val |-> v] }
    ELSE IF Cardinality(m) >= cap THEN m
    ELSE m \cup { [key |-> k, val |-> v] }

\* struct entry_t as trace_entry fills it
MakeEntry(id, regs) ==
    [id |-> id, start_ns |-> now, args |-> IF GRAB_ARGS THEN regs ELSE << >>]

\* The map elements freed while a trace_return still holds a pointer to them:
\* an element is free again once the thread whose entry took it lost that entry.
ReleaseHolder(rc, t) ==
    [u \in Threads |->
        IF rc[u].pc = "submit" /\ rc[u].holder = t THEN [rc[u] EXCEPT !.holder = Free]
        ELSE rc[u]]

(***************************************************************************)
(* BPF_STACK_TRACE(stack_traces, n) and bpf_get_stackid().  One map holds  *)
(* the user and the kernel stacks of a tool.  A stack is the sequence of   *)
(* its addresses, innermost frame first; a bucket without a stack is <<>>. *)
(***************************************************************************)
StackStorageSize == 3      \* entries of stack_traces in the model

EFAULT == 14
ENOMEM == 12
EEXIST == 17

\* the kernel/user split (PAGE_OFFSET and its variants)
PAGE_OFFSET == 100

\* What the unwinder can find on a thread: user stacks, kernel stacks.
UserStacks == { <<12, 11>>, <<12>>, <<13>>, <<11>> }
KernelStacks == { <<102, 101>> }
\* PT_REGS_IP values a hook can see
RegsIps == { 13, 100, 103 }
NoStack == << >>

RECURSIVE RoundUpPow2From(_, _)
RoundUpPow2From(p, n) == IF p >= n THEN p ELSE RoundUpPow2From(2 * p, n)
\* the number of buckets: max_entries rounded up to a power of two
NBuckets == RoundUpPow2From(1, StackStorageSize)
Buckets == 0 .. (NBuckets - 1)

\* the bucket of a stack: its hash masked to the number of buckets
StackHash(s) == s[1] % NBuckets

StoredCount(st) == Cardinality({ b \in Buckets : st[b] # NoStack })

\* a get_stackid that takes a free bucket without looking at the capacity
get_stackid_unbounded(st, trace, reuse) ==
    IF trace = NoStack THEN [id |-> -EFAULT, st |-> st]
    ELSE LET id == StackHash(trace) IN
         IF st[id] = trace THEN [id |-> id, st |-> st]
         ELSE IF st[id] # NoStack /\ ~reuse THEN [id |-> -EEXIST, st |-> st]
         ELSE [id |-> id, st |-> [st EXCEPT ![id] = trace]]
\* bpf_get_stackid(): the id and the map afterwards.  `trace` is the stack the
\* unwinder found, NoStack when it found none (-EFAULT); `reuse` is
\* BPF_F_REUSE_STACKID.
get_stackid(st, trace, reuse) ==
    IF trace = NoStack THEN [id |-> -EFAULT, st |-> st]
    ELSE LET id == StackHash(trace) IN
         IF st[id] = trace THEN [id |-> id, st |-> st]
         ELSE IF st[id] # NoStack /\ ~reuse THEN [id |-> -EEXIST, st |-> st]
         ELSE IF StoredCount(st) >= StackStorageSize THEN [id |-> -ENOMEM, st |-> st]
         ELSE [id |-> id, st |-> [st EXCEPT ![id] = trace]]

\* stack_traces.walk(id): the addresses of a stored stack, innermost first
walk(st, id) == st[id]

(***************************************************************************)
(* The record in memory.  The hook writes struct data_t, the reporter      *)
(* reads the same bytes as class Data.  Memory is a sequence of 4-byte     *)
(* cells; a u64 is two cells, low half first, and is aligned to 8 bytes.   *)
(* A u64 read back is the pair <<high half, low half>>.                    *)
(***************************************************************************)
\* struct data_t: the fields in declaration order
CFields(a) ==
    << <<"id", "u64">>, <<"tgid_pid", "u64">>, <<"start_ns", "u64">>,
       <<"duration_ns", "u64">>, <<"retval", "u64">>, <<"name", "char16">> >>
    \o (IF a.user_stack THEN << <<"user_stack_id", "int">> >> ELSE << >>)
    \o (IF a.kernel_stack
        THEN << <<"kernel_stack_id", "int">>, <<"kernel_ip", "u64">> >> ELSE << >>)
    \o (IF Truthy(a.arguments) THEN << <<"args", "u64x6">> >> ELSE << >>)

\* class Data(ct.Structure)._fields_
PyFields(a) ==
    << <<"id", "u64">>, <<"pid", "u64">>, <<"start_ns", "u64">>,
       <<"duration_ns", "u64">>, <<"retval", "u64">>, <<"name", "char16">> >>
    \o (IF Truthy(a.arguments) THEN << <<"args", "u64x6">> >> ELSE << >>)
    \o (IF a.user_stack THEN << <<"user_stack_id", "int">> >> ELSE << >>)
    \o (IF a.kernel_stack
        THEN << <<"kernel_stack_id", "int">>, <<"kernel_ip", "u64">> >> ELSE << >>)

CellsOf(type) ==
    CASE type = "u64" -> 2 [] type = "int" -> 1 [] type = "char16" -> 4
      [] type = "u64x6" -> 12
AlignTo(type, off) ==
    IF type \in {"u64", "u64x6"} /\ off % 2 = 0 THEN off + 1 ELSE off

\* the offset (in cells, from 1) of each field, in the order given
RECURSIVE OffsetsFrom(_, _, _)
OffsetsFrom(fields, i, off) ==
    IF i > Len(fields) THEN << >>
    ELSE LET o == AlignTo(fields[i][2], off)
         IN  <<o>> \o OffsetsFrom(fields, i + 1, o + CellsOf(fields[i][2]))
Offsets(fields) == OffsetsFrom(fields, 1, 1)

\* sizeof: the end of the last field, rounded up to the 8-byte alignment
StructCells(fields) ==
    LET offs == Offsets(fields)
        n == Len(fields)
        end == offs[n] + CellsOf(fields[n][2]) - 1
    IN  IF end % 2 = 1 THEN end + 1 ELSE end

\* the k-th cell (from 0) of a field holding v
CellOf(name, type, v, k) ==
    CASE type = "int" -> v
      [] type = "char16" -> IF k = 0 THEN v ELSE 0
      [] type = "u64" ->
            IF name = "tgid_pid" THEN (IF k = 0 THEN v[2] ELSE v[1])
            ELSE (IF k = 0 THEN v ELSE 0)
      [] type = "u64x6" -> IF k % 2 = 0 THEN v[(k \div 2) + 1] ELSE 0

\* what the hook hands to perf_submit: sizeof(data) bytes, padding zeroed
Encode(a, data) ==
    LET fields == CFields(a)
        offs == Offsets(fields)
    IN  [c \in 1 .. StructCells(fields) |->
            IF \E i \in 1 .. Len(fields) :
                  offs[i] <= c /\ c < offs[i] + CellsOf(fields[i][2])
            THEN LET i == CHOOSE j \in 1 .. Len(fields) :
                              offs[j] <= c /\ c < offs[j] + CellsOf(fields[j][2])
                 IN  CellOf(fields[i][1], fields[i][2], data[fields[i][1]], c - offs[i])
            ELSE 0]

\* the value of a field read at offset o
ReadField(mem, type, o) ==
    CASE type = "int" -> mem[o]
      [] type = "char16" -> mem[o]
      [] type = "u64" -> <<mem[o + 1], mem[o]>>
      [] type = "u64x6" ->
            [j \in 1 .. 6 |-> <<mem[o + 2 * j - 1], mem[o + 2 * j - 2]>>]

\* ct.cast(data, ct.POINTER(Data)).contents
Decode(a, mem) ==
    LET fields == PyFields(a)
        offs == Offsets(fields)
        names == { fields[i][1] : i \in 1 .. Len(fields) }
    IN  [n \in names |->
            LET i == CHOOSE j \in 1 .. Len(fields) : fields[j][1] = n
            IN  ReadField(mem, fields[i][2], offs[i])]

(***************************************************************************)
(* The symbolizer and text helpers.                                        *)
(***************************************************************************)
\* b.sym(addr, pid) / b.ksym(addr): the name of an address
sym(addr) ==
    CASE addr = 11 -> "f1" [] addr = 12 -> "f2" [] addr = 13 -> "f3"
      [] OTHER -> "[unknown]"
ksym(addr) ==
    CASE addr = 101 -> "k1" [] addr = 102 -> "k2" [] addr = 103 -> "k3"
      [] OTHER -> "[unknown]"

\* reversed(seq)
reversed(q) == [i \in 1 .. Len(q) |-> q[Len(q) + 1 - i]]

\* sep.join(parts)
RECURSIVE JoinFrom(_, _, _)
JoinFrom(sep, parts, i) ==
    IF i > Len(parts) THEN ""
    ELSE IF i = Len(parts) THEN parts[i]
    ELSE parts[i] \o sep \o JoinFrom(sep, parts, i + 1)
join(sep, parts) == JoinFrom(sep, parts, 1)

\* [str(b.sym(addr, pid)) for addr in q] and [b.ksym(addr) for addr in q]
SymAll(q) == [i \in 1 .. Len(q) |-> sym(q[i])]
KsymAll(q) == [i \in 1 .. Len(q) |-> ksym(q[i])]

\* "%d" of a u64 read back as <<high, low>>
U64Str(v) ==
    IF v[1] = 0 THEN ToString(v[2])
    ELSE ToString(v[1]) \o "*2^32+" \o ToString(v[2])

\* "    %-16s %s (%d)" % ("-", name, pid)
SummaryLine(name, pidstr) ==
    "    " \o "-               " \o " " \o name \o " (" \o pidstr \o ")"

(***************************************************************************)
(* funcslower.py: the reporting side.                                      *)
(***************************************************************************)
\* an error test that takes every negative id for a missed stack
AnyNegativeId(stack_id) == stack_id < 0
\* stack_id_err(stack_id)
stack_id_err(stack_id) == (stack_id < 0) /\ (stack_id # -EFAULT)

\* stack_traces.walk(id) raises KeyError for an id the map does not hold
WalkRaises(st, id) == ~(id \in Buckets /\ st[id] # NoStack)

TracerNeedDelimiter(a) == a.kernel_stack /\ a.user_stack

\* print_stack(event), folded branch: the one line it prints
TracerFoldedLine(a, st, event) ==
    LET user_stack == IF ~a.user_stack \/ event.user_stack_id < 0 THEN << >>
                      ELSE walk(st, event.user_stack_id)
        kernel_stack == IF ~a.kernel_stack \/ event.kernel_stack_id < 0 THEN << >>
                        ELSE walk(st, event.kernel_stack_id)
        upart == IF ~a.user_stack THEN << >>
                 ELSE IF stack_id_err(event.user_stack_id)
                      THEN << "[Missed User Stack]" >>
                      ELSE SymAll(reversed(user_stack))
        delim == IF a.kernel_stack /\ TracerNeedDelimiter(a)
                    /\ event.kernel_stack_id >= 0 /\ event.user_stack_id >= 0
                 THEN << "-" >> ELSE << >>
        kpart == IF ~a.kernel_stack THEN << >>
                 ELSE IF stack_id_err(event.kernel_stack_id)
                      THEN << "[Missed Kernel Stack]" >>
                      ELSE KsymAll(reversed(kernel_stack))
    IN  join(";", <<event.name>> \o upart \o delim \o kpart) \o " " \o ToString(1)

\* print_stack(event), multi-line branch: the lines printed, and whether an
\* exception ended the call.  aksym() reads args.annotations, an option the
\* parser of funcslower.py does not define: the call raises AttributeError.
TracerTreeLines(a, st, event) ==
    LET user_stack == IF ~a.user_stack \/ event.user_stack_id < 0 THEN << >>
                      ELSE walk(st, event.user_stack_id)
        kernel_stack == IF ~a.kernel_stack \/ event.kernel_stack_id < 0 THEN << >>
                        ELSE walk(st, event.kernel_stack_id)
        kraise == ~a.user_stack /\ ~stack_id_err(event.kernel_stack_id)
                    /\ kernel_stack # << >>
        klines == IF a.user_stack THEN << >>
                  ELSE IF stack_id_err(event.kernel_stack_id)
                       THEN << "    [Missed Kernel Stack]" >>
                       ELSE << >>
        dlines == IF ~a.kernel_stack /\ TracerNeedDelimiter(a)
                     /\ event.user_stack_id >= 0 /\ event.kernel_stack_id >= 0
                  THEN << "    --" >> ELSE << >>
        ulines == IF a.kernel_stack THEN << >>
                  ELSE IF stack_id_err(event.user_stack_id)
                       THEN << "    [Missed User Stack]" >>
                       ELSE [i \in 1 .. Len(user_stack) |-> "    " \o sym(user_stack[i])]
    IN  IF kraise THEN [lines |-> klines, raised |-> TRUE]
        ELSE [lines |-> klines \o dlines \o ulines
                         \o << SummaryLine(event.name, U64Str(event.pid)) >>,
              raised |-> FALSE]

\* print_stack(event)
print_stack(a, st, event) ==
    IF \/ (a.user_stack /\ event.user_stack_id >= 0
            /\ WalkRaises(st, event.user_stack_id))
       \/ (a.kernel_stack /\ event.kernel_stack_id >= 0
            /\ WalkRaises(st, event.kernel_stack_id))
    THEN [lines |-> << >>, raised |-> TRUE]
    ELSE IF a.folded
         THEN [lines |-> << TracerFoldedLine(a, st, event) >>, raised |-> FALSE]
         ELSE TracerTreeLines(a, st, event)

\* args.functions
Functions == << "vfs_write", "c:open" >>

NoOutput ==
    [header |-> << >>, blocks |-> << >>, raised |-> FALSE, warning |-> << >>,
     items |-> << >>]

\* the global earliest_ts after time_str(event)
EarliestAfter(a, event, ets) ==
    IF ~a.folded /\ ~a.time /\ a.timestamp /\ ets = 0 THEN event.start_ns[2]
    ELSE ets

\* time_str(event): nothing, the wall clock, or the nanoseconds since earliest_ts
time_str(a, event, ets) ==
    IF a.time THEN << "HH:MM:SS" >>
    ELSE IF a.timestamp
         THEN << event.start_ns[2] - EarliestAfter(a, event, ets) >>
         ELSE << >>

\* lines 274-276: the unit of the header and of the LAT column
time_designator(a) == IF Truthy(a.min_us) THEN "us" ELSE "ms"
\* args.min_us or args.min_ms or 1, in thousandths
time_value(a) ==
    IF Truthy(a.min_us) THEN a.min_us[1]
    ELSE IF Truthy(a.min_ms) THEN a.min_ms[1]
    ELSE FloatDen
time_multiplier(a) == IF Truthy(a.min_us) THEN 1000 ELSE 1000000

\* the two header lines (lines 279-285); nothing is printed when folded
Header(a) ==
    IF a.folded THEN << >>
    ELSE << [text |-> "Tracing function calls slower than", value |-> time_value(a),
             unit |-> time_designator(a)],
            [text |-> "LAT(" \o time_designator(a) \o ")"] >>

\* the first line of print_event: the values it formats
EventLine(a, event, ets) ==
    [time |-> time_str(a, event, ets),
     name |-> event.name,
     pid |-> event.pid[1],
     lat_num |-> event.duration_ns,
     lat_den |-> time_multiplier(a),
     rval |-> event.retval,
     func |-> Functions[event.id[2] + 1],
     args |-> IF ~Truthy(a.arguments) THEN << >>
              ELSE SubSeq(event.args, 1, a.arguments[1])]

\* print_event(cpu, data, size)
print_event(a, st, mem, ets) ==
    LET event == Decode(a, mem)
        hdr == IF a.folded THEN << >> ELSE << EventLine(a, event, ets) >>
        stk == IF a.user_stack \/ a.kernel_stack THEN print_stack(a, st, event)
               ELSE [lines |-> << >>, raised |-> FALSE]
    IN  [header |-> hdr, blocks |-> << stk.lines >>, raised |-> stk.raised,
         warning |-> << >>, items |-> << event >>]

(***************************************************************************)
(* funcslower.py: the hooks.                                               *)
(***************************************************************************)
\* USER_STACK_GET / KERNEL_STACK_GET after "handle stack args": the text that
\* replaces each macro is either a get_stackid call or the literal -1.
TracerKernelStackGetIsCall(a) == ~a.user_stack
TracerUserStackGetIsCall(a) == a.user_stack \/ ~a.kernel_stack

\* a filter that drops the call that lasts exactly the threshold
TooFastOrEqual(delta_ns) == delta_ns <= DURATION_NS
\* if (delta_ns < DURATION_NS) return 0;
TooFast(delta_ns) == delta_ns < DURATION_NS

\* the kernel_ip of a record or key: set only for a valid kernel stack id and
\* an ip above the split, otherwise left at the zero of the initializer
\* a test that keeps an ip equal to the split
KernelIpAtOrAbove(kernel_stack_id, ip) ==
    IF kernel_stack_id >= 0 /\ ip >= PAGE_OFFSET THEN ip ELSE 0
KernelIp(kernel_stack_id, ip) ==
    IF kernel_stack_id >= 0 /\ ip > PAGE_OFFSET THEN ip ELSE 0

\* struct data_t as trace_return fills it; a field the build leaves out of the
\* struct is absent from the record
MakeData(t, entryp, delta_ns, retval, usid, ksid, ip) ==
    [id |-> entryp.id, tgid_pid |-> t, start_ns |-> entryp.start_ns,
     duration_ns |-> delta_ns, retval |-> retval, name |-> Comm(t)]
    @@ (IF USER_STACKS THEN [user_stack_id |-> usid] ELSE << >>)
    @@ (IF KERNEL_STACKS
        THEN [kernel_stack_id |-> ksid, kernel_ip |-> KernelIp(ksid, ip)]
        ELSE << >>)
    @@ (IF GRAB_ARGS THEN [args |-> entryp.args] ELSE << >>)

\* lines 159-203 of trace_return: the record it builds and the stack map after
\* the two get_stackid calls
BuildData(a, st, t, entryp, delta_ns, retval, ustack, kstack, ip) ==
    LET ug == IF USER_STACKS /\ TracerUserStackGetIsCall(a)
              THEN get_stackid(st, ustack, FALSE)
              ELSE [id |-> -1, st |-> st]
        kg == IF KERNEL_STACKS /\ TracerKernelStackGetIsCall(a)
              THEN get_stackid(ug.st, kstack, FALSE)
              ELSE [id |-> -1, st |-> ug.st]
    IN  [data |-> MakeData(t, entryp, delta_ns, retval, ug.id, kg.id, ip),
         st |-> kg.st, usid |-> ug.id, ksid |-> kg.id]

\* events.perf_submit(): the record is queued unless the buffer is full
\* a ring in overwrite mode: the oldest record makes room for the new one
PerfOverwrite(ev, rec) == IF Len(ev) < PerfBufCap THEN Append(ev, rec) ELSE Append(Tail(ev), rec)
PerfSubmit(ev, rec) == IF Len(ev) < PerfBufCap THEN Append(ev, rec) ELSE ev
PerfDrops(ev) == IF Len(ev) < PerfBufCap THEN 0 ELSE 1

\* trace_entry (lines 117-141).  The update takes a map element; it may be one
\* that a trace_return on another CPU freed and still reads (`reuse`).
trace_entry(t, id, regs, reuse) ==
    /\ IsTracer(args)
    /\ phase = "run"
    /\ retctx[t].pc = "idle"
    /\ nentry < MaxEntries
    /\ nentry' = nentry + 1
    /\ IF TGID_FILTER(t)
       THEN UNCHANGED <<entryinfo, retctx, recent>>
       ELSE LET entry == MakeEntry(id, regs)
                stored == MapHas(entryinfo, t) \/ Cardinality(entryinfo) < MaxPending
                rc1 == IF stored THEN ReleaseHolder(retctx, t) ELSE retctx
            IN  /\ entryinfo' = MapUpdate(entryinfo, t, entry, MaxPending)
                /\ IF reuse = Free \/ ~stored
                   THEN retctx' = rc1
                   ELSE /\ reuse # t
                        /\ rc1[reuse].pc = "submit"
                        /\ rc1[reuse].holder = Free
                        /\ retctx' = [rc1 EXCEPT ![reuse].entryp = entry,
                                                 ![reuse].holder = t,
                                                 ![reuse].clobbered = TRUE]
                /\ recent' = IF stored THEN [recent EXCEPT ![t] = <<entry>> \o @]
                              ELSE recent
    /\ UNCHANGED <<args, now, stack_traces, events, lost, earliest_ts, nslow,
                   nsubmit, profVars, out, missed>>

\* a trace_return without the test of entryp: a miss is taken for a call that
\* started at time 0
trace_return_unchecked(t) ==
    /\ IsTracer(args)
    /\ phase = "run"
    /\ retctx[t].pc = "idle"
    /\ missed' = (missed \/ ~MapHas(entryinfo, t))
    /\ entryinfo' = MapDelete(entryinfo, t)
    /\ retctx' = [ReleaseHolder(retctx, t) EXCEPT ![t] =
           [pc |-> "submit",
            entryp |-> IF MapHas(entryinfo, t) THEN MapLookup(entryinfo, t)
                       ELSE [id |-> 0, start_ns |-> 0,
                             args |-> IF GRAB_ARGS THEN <<0, 0, 0, 0, 0, 0>> ELSE << >>],
            delta_ns |-> now, holder |-> Free, clobbered |-> FALSE]]
    /\ nslow' = nslow + 1
    /\ UNCHANGED <<args, now, stack_traces, events, lost, earliest_ts, nsubmit,
                   profVars, out, nentry, recent>>

\* trace_return, first part (lines 143-157): lookup, duration, delete, filter
trace_return_lookup(t) ==
    /\ IsTracer(args)
    /\ phase = "run"
    /\ retctx[t].pc = "idle"
    /\ IF ~MapHas(entryinfo, t)
       THEN /\ missed' = TRUE
            /\ UNCHANGED <<entryinfo, retctx, nslow, recent>>
       ELSE LET entryp == MapLookup(entryinfo, t)
                delta_ns == now - entryp.start_ns
            IN  /\ entryinfo' = MapDelete(entryinfo, t)
                /\ retctx' = [ReleaseHolder(retctx, t) EXCEPT ![t] =
                       IF TooFast(delta_ns) THEN Idle
                       ELSE [pc |-> "submit", entryp |-> entryp,
                             delta_ns |-> delta_ns, holder |-> Free,
                             clobbered |-> FALSE]]
                /\ nslow' = nslow + (IF delta_ns >= DURATION_NS THEN 1 ELSE 0)
                /\ recent' = IF TooFast(delta_ns) THEN [recent EXCEPT ![t] = << >>]
                              ELSE recent
                /\ missed' = missed
    /\ UNCHANGED <<args, now, stack_traces, events, lost, earliest_ts, nsubmit,
                   profVars, out, nentry>>

\* trace_return, second part (lines 159-206): the record is filled from entryp,
\* which points into the element deleted above, and submitted
trace_return_submit(t, retval, ustack, kstack, ip) ==
    /\ IsTracer(args)
    /\ retctx[t].pc = "submit"
    /\ LET r == BuildData(args, stack_traces, t, retctx[t].entryp,
                          retctx[t].delta_ns, retval, ustack, kstack, ip)
       IN  /\ stack_traces' = r.st
           /\ events' = PerfSubmit(events, Encode(args, r.data))
           /\ lost' = lost + PerfDrops(events)
    /\ nsubmit' = nsubmit + 1
    /\ retctx' = [retctx EXCEPT ![t] = Idle]
    /\ recent' = [recent EXCEPT ![t] = << >>]
    /\ UNCHANGED <<args, now, entryinfo, earliest_ts, nslow, profVars, out,
                   missed, nentry>>

\* b.perf_buffer_poll(): the callback runs on the oldest queued record
PollEvent ==
    /\ IsTracer(args)
    /\ phase = "run"
    /\ events # << >>
    /\ out' = print_event(args, stack_traces, Head(events), earliest_ts)
    /\ earliest_ts' = EarliestAfter(args, Decode(args, Head(events)), earliest_ts)
    /\ events' = Tail(events)
    /\ UNCHANGED <<args, now, entryinfo, stack_traces, retctx, lost, nslow,
                   nsubmit, profVars, recent, missed, nentry>>

\* SIGINT while the loop 'while True: b.perf_buffer_poll()' runs: nothing
\* catches KeyboardInterrupt, the program ends there and the probes are
\* detached; what the perf buffer still holds is not read
Interrupt ==
    /\ IsTracer(args)
    /\ phase = "run"
    /\ phase' = "done"
    /\ UNCHANGED <<args, now, entryinfo, stack_traces, tracerVars, counts, cpuctx,
                   nhit, nold, nstale, out, recent, missed, nentry>>

\* the clock moves on
Advance(tp) ==
    /\ tp \in TimePoints
    /\ tp > now
    /\ phase = "run"
    /\ now' = tp
    /\ UNCHANGED <<args, entryinfo, stack_traces, tracerVars, profVars, out,
                   recent, missed, nentry>>

(***************************************************************************)
(* profile_slower.py: the hooks.                                           *)
(***************************************************************************)
\* THREAD_FILTER: 'pid == %s' when -p was given, else '1'
THREAD_FILTER(t) == IF args.pid # NotGiven THEN Tgid(t) = args.pid[1] ELSE TRUE

\* USER_STACK_GET / KERNEL_STACK_GET after "handle stack args"
ProfKernelStackGetIsCall(a) == ~a.user_stacks_only
ProfUserStackGetIsCall(a) == a.user_stacks_only \/ ~a.kernel_stacks_only

\* a tick that counts a pending call of any age
NeverTooYoung(delta_ns) == FALSE
\* the comparison turned round
SlowerThanThreshold(delta_ns) == delta_ns > DURATION_NS
\* if (delta_ns < DURATION_NS) return 0;   in do_perf_event
NotYetSlow(delta_ns) == delta_ns < DURATION_NS

\* struct key_t as do_perf_event fills it, and the stack map afterwards
MakeKey(a, st, t, ustack, kstack, ip) ==
    LET ug == IF ProfUserStackGetIsCall(a) THEN get_stackid(st, ustack, TRUE)
              ELSE [id |-> -1, st |-> st]
        kg == IF ProfKernelStackGetIsCall(a) THEN get_stackid(ug.st, kstack, TRUE)
              ELSE [id |-> -1, st |-> ug.st]
    IN  [key |-> [pid |-> Tgid(t), kernel_ip |-> KernelIp(kg.id, ip),
                  kernel_ret_ip |-> 0, user_stack_id |-> ug.id,
                  kernel_stack_id |-> kg.id, name |-> Comm(t)],
         st |-> kg.st]

\* counts.lookup_or_init(&key, &zero)
lookup_or_init(m, k, zero) ==
    IF MapHas(m, k) THEN m ELSE m \cup { [key |-> k, val |-> zero] }

\* trace_entry of profile_slower.py (lines 159-183); TGID_FILTER is '0'
prof_trace_entry(t, id) ==
    /\ ~IsTracer(args)
    /\ phase = "run"
    /\ cpuctx[t].pc = "idle"
    /\ nentry < MaxEntries
    /\ nentry' = nentry + 1
    /\ LET entry == MakeEntry(id, << >>)
           stored == MapHas(entryinfo, t) \/ Cardinality(entryinfo) < MaxPending
       IN  /\ entryinfo' = MapUpdate(entryinfo, t, entry, MaxPending)
           /\ recent' = IF stored THEN [recent EXCEPT ![t] = <<entry>> \o @]
                         ELSE recent
    /\ UNCHANGED <<args, now, stack_traces, tracerVars, profVars, out, missed>>

\* trace_return of profile_slower.py (lines 185-199)
prof_trace_return(t) ==
    /\ ~IsTracer(args)
    /\ phase = "run"
    /\ cpuctx[t].pc = "idle"
    /\ IF ~MapHas(entryinfo, t)
       THEN /\ missed' = TRUE
            /\ UNCHANGED <<entryinfo, recent>>
       ELSE /\ entryinfo' = MapDelete(entryinfo, t)
            /\ recent' = [recent EXCEPT ![t] = << >>]
            /\ missed' = missed
    /\ UNCHANGED <<args, now, stack_traces, tracerVars, profVars, out, nentry>>

\* do_perf_event up to the load of *val (lines 203-260).  The increment
\* (*val)++ is a load, an add and a store of the map value; ticks on other
\* CPUs can run between the load and the store.
do_perf_event(t, ustack, kstack, ip) ==
    /\ ~IsTracer(args)
    /\ phase = "run"
    /\ cpuctx[t].pc = "idle"
    /\ nhit < MaxTicks
    /\ IF ~THREAD_FILTER(t) \/ ~MapHas(entryinfo, t)
       THEN UNCHANGED <<stack_traces, counts, cpuctx, nhit, nold>>
       ELSE LET delta_ns == now - MapLookup(entryinfo, t).start_ns IN
            /\ nhit' = nhit + 1
            /\ nold' = nold + (IF delta_ns >= DURATION_NS THEN 1 ELSE 0)
            /\ IF NotYetSlow(delta_ns)
               THEN UNCHANGED <<stack_traces, counts, cpuctx>>
               ELSE LET r == MakeKey(args, stack_traces, t, ustack, kstack, ip)
                        m == lookup_or_init(counts, r.key, 0)
                    IN  /\ stack_traces' = r.st
                        /\ counts' = m
                        /\ cpuctx' = [cpuctx EXCEPT ![t] =
                               [pc |-> "store", key |-> r.key,
                                val |-> MapLookup(m, r.key)]]
    /\ UNCHANGED <<args, now, entryinfo, tracerVars, phase, nstale, out, recent,
                   missed, nentry>>

\* the store that ends (*val)++ (line 260)
tick_store(t) ==
    /\ cpuctx[t].pc = "store"
    /\ LET k == cpuctx[t].key IN
       /\ counts' = MapDelete(counts, k) \cup { [key |-> k, val |-> cpuctx[t].val + 1] }
       /\ nstale' = nstale + (IF MapLookup(counts, k) # cpuctx[t].val THEN 1 ELSE 0)
    /\ cpuctx' = [cpuctx EXCEPT ![t] = Idle]
    /\ UNCHANGED <<args, now, entryinfo, stack_traces, tracerVars, phase, nhit,
                   nold, out, recent, missed, nentry>>

(***************************************************************************)
(* profile_slower.py: the report.                                          *)
(***************************************************************************)
ProfNeedDelimiter(a) == a.delimited /\ ~(a.kernel_stacks_only \/ a.user_stacks_only)

\* aksym(addr) of profile_slower.py
aksym(a, addr) == IF a.annotations THEN ksym(addr) \o "_[k]" ELSE ksym(addr)

\* the user_stack and the fixed kernel_stack of one item (lines 383-395)
ItemUserStack(st, k) ==
    IF k.user_stack_id < 0 THEN << >> ELSE walk(st, k.user_stack_id)
ItemKernelStack(st, k) ==
    IF k.kernel_stack_id < 0 THEN << >>
    ELSE (IF k.kernel_ip # 0 THEN << k.kernel_ip >> ELSE << >>)
         \o walk(st, k.kernel_stack_id)

\* the folded line of one item (lines 399-407)
ProfFoldedLine(a, st, k, v) ==
    LET user_stack == ItemUserStack(st, k)
        kernel_stack == ItemKernelStack(st, k)
        do_delimiter == ProfNeedDelimiter(a) /\ kernel_stack # << >>
        rk == reversed(kernel_stack)
    IN  join(";", << k.name >> \o SymAll(reversed(user_stack))
                  \o (IF do_delimiter THEN << "-" >> ELSE << >>)
                  \o [i \in 1 .. Len(rk) |-> aksym(a, rk[i])])
        \o " " \o ToString(v)

\* the multi-line output of one item (lines 408-417)
ProfTreeLines(a, st, k, v) ==
    LET user_stack == ItemUserStack(st, k)
        kernel_stack == ItemKernelStack(st, k)
        do_delimiter == ProfNeedDelimiter(a) /\ kernel_stack # << >>
    IN  [i \in 1 .. Len(kernel_stack) |-> "    " \o aksym(a, kernel_stack[i])]
        \o (IF do_delimiter THEN << "    --" >> ELSE << >>)
        \o [i \in 1 .. Len(user_stack) |-> "    " \o sym(user_stack[i])]
        \o << SummaryLine(k.name, ToString(k.pid)), "        " \o ToString(v), "" >>

\* one iteration of the output loop
ProfItemLines(a, st, k, v) ==
    IF a.folded THEN << ProfFoldedLine(a, st, k, v) >> ELSE ProfTreeLines(a, st, k, v)

\* "handle get_stackid errors" (lines 373-381)
\* a test that counts every negative id of a requested scope
IsNegative(a, k) ==
    \/ ~a.user_stacks_only /\ k.kernel_stack_id < 0
    \/ ~a.kernel_stacks_only /\ k.user_stack_id < 0
IsMissing(a, k) ==
    \/ ~a.user_stacks_only /\ k.kernel_stack_id < 0 /\ k.kernel_stack_id # -EFAULT
    \/ ~a.kernel_stacks_only /\ k.user_stack_id < 0 /\ k.user_stack_id # -EFAULT
missing_stacks(a, m) == Cardinality({ p \in m : IsMissing(a, p.key) })
has_enomem(a, m) ==
    \E p \in m : /\ IsMissing(a, p.key)
                 /\ (p.key.kernel_stack_id = -ENOMEM \/ p.key.user_stack_id = -ENOMEM)

\* the line written to stderr after the loop (lines 419-425)
Warning(a, m) ==
    IF missing_stacks(a, m) > 0
    THEN << "WARNING: " \o ToString(missing_stacks(a, m))
            \o " stack traces could not be displayed."
            \o (IF has_enomem(a, m) THEN " Consider increasing --stack-storage-size."
                ELSE "") >>
    ELSE << >>

\* the items in the iteration order of the hash, not sorted
HashOrders(m) ==
    { q \in [1 .. Cardinality(m) -> m] :
        \A i, j \in 1 .. Cardinality(m) : i # j => q[i] # q[j] }
\* sorted(counts.items(), key=value): the orders a stable sort can produce from
\* the iteration order of the hash, which the program does not control
Orders(m) ==
    { q \in [1 .. Cardinality(m) -> m] :
        /\ \A i, j \in 1 .. Cardinality(m) : i # j => q[i] # q[j]
        /\ \A i, j \in 1 .. Cardinality(m) : i < j => q[i].val <= q[j].val }

\* the report after the sleep (lines 366-425)
Report ==
    /\ ~IsTracer(args)
    /\ phase = "run"
    /\ phase' = "done"
    /\ \E q \in Orders(counts) :
         out' = [header |-> << >>,
                 blocks |-> [i \in 1 .. Len(q) |->
                               ProfItemLines(args, stack_traces, q[i].key, q[i].val)],
                 raised |-> \E i \in 1 .. Len(q) :
                               \/ (q[i].key.user_stack_id >= 0
                                     /\ WalkRaises(stack_traces, q[i].key.user_stack_id))
                               \/ (q[i].key.kernel_stack_id >= 0
                                     /\ WalkRaises(stack_traces, q[i].key.kernel_stack_id)),
                 warning |-> Warning(args, counts),
                 items |-> q]
    /\ UNCHANGED <<args, now, entryinfo, stack_traces, tracerVars, counts, cpuctx,
                   nhit, nold, nstale, recent, missed, nentry>>

(***************************************************************************)
(* Runs.                                                                   *)
(***************************************************************************)
Retvals == { 0 }
NoCounts == { }

\* funcslower.py without stack capture: -p, -a
TracerConfigs ==
    { [tool |-> "funcslower", tgid |-> c[1], min_ms |-> NotGiven, min_us |-> NotGiven,
       arguments |-> c[2], user_stack |-> FALSE, kernel_stack |-> FALSE,
       folded |-> FALSE, time |-> FALSE, timestamp |-> FALSE] :
        c \in { <<NotGiven, <<2>> >>, << <<1>>, NotGiven>> } }

\* profile_slower.py: -p, -f
ProfilerConfigs ==
    { [tool |-> "profile_slower", pid |-> c[1], user_stacks_only |-> FALSE,
       kernel_stacks_only |-> FALSE, delimited |-> FALSE, annotations |-> FALSE,
       folded |-> c[2]] :
        c \in { <<NotGiven, FALSE>>, << <<1>>, TRUE>> } }

EmptyStore == [b \in Buckets |-> NoStack]

\* the state after the probes are attached
InitWith(configs, stores) ==
    /\ args \in configs
    /\ now = 1
    /\ entryinfo = { }
    /\ stack_traces \in stores
    /\ retctx = [t \in Threads |-> Idle]
    /\ events = << >>
    /\ lost = 0
    /\ earliest_ts = 0
    /\ counts = NoCounts
    /\ cpuctx = [t \in Threads |-> Idle]
    /\ phase = "run"
    /\ out = NoOutput
    /\ recent = [t \in Threads |-> << >>]
    /\ missed = FALSE
    /\ nentry = 0
    /\ nslow = 0
    /\ nsubmit = 0
    /\ nhit = 0
    /\ nold = 0
    /\ nstale = 0

NextTracerOn(T, US, KS, IPS) ==
    \/ \E t \in T, id \in ProbeIds, regs \in ArgVectors, reuse \in T \cup { Free } :
         trace_entry(t, id, regs, reuse)
    \/ \E t \in T : trace_return_lookup(t)
    \/ \E t \in T, retval \in Retvals, us \in US, ks \in KS, ip \in IPS :
         trace_return_submit(t, retval, us, ks, ip)
    \/ PollEvent

NextProfilerOn(T, US, KS, IPS) ==
    \/ \E t \in T : prof_trace_entry(t, 0)
    \/ \E t \in T : prof_trace_return(t)
    \/ \E t \in T, us \in US, ks \in KS, ip \in IPS : do_perf_event(t, us, ks, ip)
    \/ \E t \in T : tick_store(t)

\* Correlation and aggregation: both tools.  The tracer runs on a thread of
\* each of two processes, the profiler on two threads of one process and one
\* of another; the tracer captures no stacks, the profiler one user stack.
TracerThreads == { <<1, 1>>, <<2, 3>> }
Init == InitWith(TracerConfigs \cup ProfilerConfigs, { EmptyStore })
Next ==
    \/ NextTracerOn(TracerThreads, { NoStack }, { NoStack }, { 13 })
    \/ NextProfilerOn(Threads, { <<12, 11>> }, { NoStack }, { 13 })
    \/ \E tp \in TimePoints : Advance(tp)
Spec == Init /\ [][Next]_vars

\* Stack capture and rendering: one thread, every choice of stack scopes and
\* output format, and a stack map that earlier events may have filled.
StackTracerConfigs ==
    { [tool |-> "funcslower", tgid |-> NotGiven, min_ms |-> NotGiven,
       min_us |-> NotGiven, arguments |-> NotGiven, user_stack |-> c[1],
       kernel_stack |-> c[2], folded |-> f, time |-> FALSE, timestamp |-> FALSE] :
        c \in { <<TRUE, FALSE>>, <<FALSE, TRUE>>, <<TRUE, TRUE>> },
        f \in { TRUE, FALSE } }

StackProfilerConfigs ==
    { [tool |-> "profile_slower", pid |-> NotGiven, user_stacks_only |-> c[1],
       kernel_stacks_only |-> c[2], delimited |-> c[3], annotations |-> c[3],
       folded |-> c[4]] :
        c \in { <<FALSE, FALSE, FALSE, TRUE>>, <<FALSE, FALSE, TRUE, TRUE>>,
                <<FALSE, FALSE, FALSE, FALSE>>, <<FALSE, FALSE, TRUE, FALSE>>,
                <<TRUE, FALSE, FALSE, FALSE>>, <<FALSE, TRUE, TRUE, TRUE>> } }

\* the stack map after earlier hooks interned the stacks of q
RECURSIVE StoreAfter(_, _)
StoreAfter(q, i) ==
    IF i = 0 THEN EmptyStore ELSE get_stackid(StoreAfter(q, i - 1), q[i], FALSE).st
Stores ==
    { StoreAfter(q, Len(q)) :
        q \in { << >>, << <<12>> >>, << <<12, 11>>, <<13>>, <<11>> >> } }

StackThreads == { <<1, 1>> }
InitStacks == InitWith(StackTracerConfigs \cup StackProfilerConfigs, Stores)
NextStacks ==
    \/ NextTracerOn(StackThreads, { <<12, 11>>, NoStack }, { <<102, 101>>, NoStack },
                    RegsIps)
    \/ NextProfilerOn(StackThreads, { <<12, 11>>, NoStack }, { <<102, 101>>, NoStack },
                      RegsIps)
    \/ Report
    \/ Interrupt
    \/ Advance(1000002)
SpecStacks == InitStacks /\ [][NextStacks]_vars

\* The kernel ip: the multi-line configurations of both tools, from an empty
\* stack map and from a full one.
KernelIpConfigs == { a \in StackTracerConfigs \cup StackProfilerConfigs : ~a.folded }
InitKernelIp ==
    InitWith(KernelIpConfigs, { EmptyStore, StoreAfter(<< <<12, 11>>, <<13>>, <<11>> >>, 3) })
SpecKernelIp == InitKernelIp /\ [][NextStacks]_vars

\* The record layout: every combination of -a, -U and -K of funcslower.py.
LayoutConfigs ==
    { [tool |-> "funcslower", tgid |-> NotGiven, min_ms |-> NotGiven,
       min_us |-> NotGiven, arguments |-> a, user_stack |-> u, kernel_stack |-> k,
       folded |-> FALSE, time |-> FALSE, timestamp |-> FALSE] :
        a \in { NotGiven, <<2>> }, u \in BOOLEAN, k \in BOOLEAN }
InitLayout == InitWith(LayoutConfigs, { EmptyStore })
NextLayout ==
    \/ NextTracerOn(StackThreads, { <<12, 11>>, NoStack }, { <<102, 101>>, NoStack },
                    RegsIps)
    \/ \E tp \in TimePoints : Advance(tp)
SpecLayout == InitLayout /\ [][NextLayout]_vars

\* The relative timestamps: funcslower.py -t on two threads, whose calls may
\* return in another order than they began.
TimestampConfigs ==
    { [tool |-> "funcslower", tgid |-> NotGiven, min_ms |-> NotGiven,
       min_us |-> NotGiven, arguments |-> NotGiven, user_stack |-> FALSE,
       kernel_stack |-> FALSE, folded |-> FALSE, time |-> FALSE, timestamp |-> TRUE] }
InitTimestamp == InitWith(TimestampConfigs, { EmptyStore })
NextTimestamp ==
    \/ NextTracerOn(TracerThreads, { NoStack }, { NoStack }, { 13 })
    \/ \E tp \in TimePoints : Advance(tp)
SpecTimestamp == InitTimestamp /\ [][NextTimestamp]_vars

\* The threshold options of funcslower.py: -m and -u absent, zero, a fraction
\* and a value above one, alone and together (the parser accepts both).
ThresholdValues == { NotGiven, <<0>>, <<1>>, <<1500>> }
ThresholdConfigs ==
    { [tool |-> "funcslower", tgid |-> NotGiven, min_ms |-> ms, min_us |-> us,
       arguments |-> NotGiven, user_stack |-> FALSE, kernel_stack |-> FALSE,
       folded |-> FALSE, time |-> FALSE, timestamp |-> FALSE] :
        ms \in ThresholdValues, us \in ThresholdValues }
InitThreshold == InitWith(ThresholdConfigs, { EmptyStore })
NextThreshold ==
    \/ NextTracerOn({ <<1, 1>> }, { NoStack }, { NoStack }, { 13 })
    \/ \E tp \in TimePoints : Advance(tp)
SpecThreshold == InitThreshold /\ [][NextThreshold]_vars

\* The pending-call table at capacity: the run is observed from a moment at
\* which two threads of process 1 are inside the traced function, so that
\* entryinfo may already be full when another thread enters.
PendingThreads == { <<1, 1>>, <<1, 2>> }
PendingEntry == [id |-> 0, start_ns |-> 1, args |-> IF GRAB_ARGS THEN <<7, 8, 9, 10, 11, 12>> ELSE << >>]
InitTable ==
    /\ args \in TracerConfigs \cup ProfilerConfigs
    /\ now = 1
    /\ entryinfo = { [key |-> t, val |-> PendingEntry] : t \in PendingThreads }
    /\ stack_traces = EmptyStore
    /\ retctx = [t \in Threads |-> Idle]
    /\ events = << >>
    /\ lost = 0
    /\ earliest_ts = 0
    /\ counts = NoCounts
    /\ cpuctx = [t \in Threads |-> Idle]
    /\ phase = "run"
    /\ out = NoOutput
    /\ recent = [t \in Threads |-> IF t \in PendingThreads THEN << PendingEntry >> ELSE << >>]
    /\ missed = FALSE
    /\ nentry = 0
    /\ nslow = 0
    /\ nsubmit = 0
    /\ nhit = 0
    /\ nold = 0
    /\ nstale = 0
SpecTable == InitTable /\ [][Next]_vars

(***************************************************************************)
(* Properties of the correlation of entries and returns.                   *)
(***************************************************************************)
InSubmit(t) == retctx[t].pc = "submit"

\* C1: a matched return of the tracer submits no record when the duration is
\* below DURATION_NS and exactly one when it is at least DURATION_NS: at every
\* moment the records submitted, plus the returns that are about to submit,
\* are as many as the matched returns whose duration reached the threshold,
\* and a return about to submit carries a duration of at least DURATION_NS.
C1_ReportedIffSlow ==
    /\ nsubmit + Cardinality({ t \in Threads : InSubmit(t) }) = nslow
    /\ \A t \in Threads : InSubmit(t) => retctx[t].delta_ns >= DURATION_NS
    /\ Len(events) + lost <= nsubmit

\* a call that lasted exactly the threshold is being reported after a call of
\* one nanosecond less was not
C1_Witness ==
    /\ DURATION_NS = 1000000
    /\ \E t \in Threads : InSubmit(t) /\ retctx[t].delta_ns = 1000000
    /\ \E u \in Threads : ~InSubmit(u) /\ recent[u] = << >> /\ nentry = 2 /\ nsubmit = 0
                          /\ ~TGID_FILTER(u) /\ ~missed

\* the record a trace_return submitted carries the data of entry e
CarriesEntry(mem, e) ==
    LET ev == Decode(args, mem)
    IN  /\ ev.id = <<0, e.id>>
        /\ ev.start_ns = <<0, e.start_ns>>
        /\ GRAB_ARGS => \A i \in 1 .. 6 : ev.args[i] = <<0, e.args[i]>>

\* C2: a return that finds a pending call resolves the data of the most
\* recent entry of its thread (probe id, start timestamp, arguments), the
\* record it submits when no other thread ran an entry hook in between
\* carries that data, and after the return the table holds no entry for the
\* thread, whether or not the call met the threshold.
C2_ResolvesLatestEntry ==
    [][\A t \in Threads :
        /\ (MapHas(entryinfo, t) /\ trace_return_lookup(t)) =>
              /\ MapLookup(entryinfo, t) = recent[t][1]
              /\ ~MapHas(entryinfo', t)
              /\ InSubmit(t)' => retctx'[t].entryp = recent[t][1]
        /\ (MapHas(entryinfo, t) /\ prof_trace_return(t)) =>
              /\ MapLookup(entryinfo, t) = recent[t][1]
              /\ ~MapHas(entryinfo', t)
        /\ (InSubmit(t) /\ ~InSubmit(t)' /\ ~retctx[t].clobbered
              /\ Len(events') > Len(events)) =>
              CarriesEntry(events'[Len(events')], recent[t][1])
      ]_vars

\* a return is about to report the second of two entries of its thread, which
\* differ in probe id, start time and arguments
C2_Witness ==
    \E t \in Threads :
        /\ InSubmit(t) /\ ~retctx[t].clobbered
        /\ Len(recent[t]) = 2
        /\ retctx[t].entryp = recent[t][1]
        /\ recent[t][1].id # recent[t][2].id
        /\ recent[t][1].start_ns # recent[t][2].start_ns
        /\ GRAB_ARGS /\ recent[t][1].args # recent[t][2].args

\* C3: a return hook on a thread without a pending call changes nothing: no
\* record is submitted and the pending-call table, the stack map, the perf
\* buffer, the counts and the output stay as they were.
C3_NoMatchChangesNothing ==
    [][\A t \in Threads :
        (~MapHas(entryinfo, t) /\ (trace_return_lookup(t) \/ prof_trace_return(t)))
            => UNCHANGED <<entryinfo, stack_traces, retctx, events, lost, nsubmit,
                           counts, cpuctx, out>>
      ]_vars

\* a return found nothing while another thread had a call pending
C3_Witness == missed /\ entryinfo # { } /\ nsubmit = 0 /\ events = << >>

\* C4: a second entry on a thread overwrites the first, so a thread has at
\* most one pending call; the first following return resolves the second
\* entry and is reported iff that entry is DURATION_NS old; the table then
\* holds nothing for the thread, so the next return finds no call and the
\* outer call is never reported.
C4_InnermostOnly ==
    \A t \in Threads :
        /\ Cardinality({ p \in entryinfo : p.key = t }) <= 1
        /\ MapHas(entryinfo, t) =>
              recent[t] # << >> /\ MapLookup(entryinfo, t) = recent[t][1]
        /\ ~MapHas(entryinfo, t) /\ ~InSubmit(t) => recent[t] = << >>
        /\ InSubmit(t) =>
              /\ ~MapHas(entryinfo, t)
              /\ ~retctx[t].clobbered =>
                    /\ retctx[t].entryp = recent[t][1]
                    /\ retctx[t].delta_ns + recent[t][1].start_ns <= now
                    /\ retctx[t].delta_ns >= DURATION_NS

\* probe 0 entered at time 1, probe 1 at a later time, and the return reports
\* probe 1 with the later start; the table holds nothing for the thread
C4_Witness ==
    \E t \in Threads :
        /\ IsTracer(args)
        /\ InSubmit(t) /\ ~retctx[t].clobbered
        /\ Len(recent[t]) = 2
        /\ recent[t][2].id = 0 /\ recent[t][2].start_ns = 1
        /\ recent[t][1].id = 1 /\ recent[t][1].start_ns = 2
        /\ retctx[t].entryp.id = 1 /\ retctx[t].entryp.start_ns = 2
        /\ ~MapHas(entryinfo, t)

(***************************************************************************)
(* Properties of the aggregation.                                          *)
(***************************************************************************)
RECURSIVE SumVals(_)
SumVals(m) ==
    IF m = { } THEN 0
    ELSE LET p == CHOOSE x \in m : TRUE IN p.val + SumVals(m \ { p })

TicksAtRest == \A t \in Threads : cpuctx[t].pc = "idle"

C6_NoIncrementLost == TicksAtRest => SumVals(counts) = nold

\* C6, second part as stated: no count ever decreases.
C6_CountNeverDecreases ==
    [][\A p \in counts : \A q \in counts' : p.key = q.key => p.val <= q.val]_vars

\* two ticks on two CPUs loaded the same count of one key
C6_Witness ==
    \E t, u \in Threads :
        /\ t # u
        /\ cpuctx[t].pc = "store" /\ cpuctx[u].pc = "store"
        /\ cpuctx[t].key = cpuctx[u].key
        /\ cpuctx[t].val = cpuctx[u].val

(***************************************************************************)
(* Properties of stack capture and of the rendering.                       *)
(***************************************************************************)
Reported == ~IsTracer(args) /\ phase = "done"
Polled == IsTracer(args) /\ out.items # << >>
BothScopes ==
    IF IsTracer(args) THEN args.user_stack /\ args.kernel_stack
    ELSE ~args.user_stacks_only /\ ~args.kernel_stacks_only

\* C7, as stated: in folded mode an aggregate of thread "w" with count 3,
\* user frames f1, f2 and a kernel stack that could not be stored is the
\* line "w;f1;f2;[Missed Kernel Stack] 3".
C7_FoldedLineNamesMissedKernelStack ==
    (Reported /\ args.folded /\ BothScopes) =>
        \A i \in 1 .. Len(out.items) :
            LET k == out.items[i].key IN
            (/\ k.name = "w" /\ out.items[i].val = 3
             /\ k.kernel_stack_id = -ENOMEM
             /\ k.user_stack_id >= 0
             /\ walk(stack_traces, k.user_stack_id) = <<12, 11>>)
            => out.blocks[i] = << "w;f1;f2;[Missed Kernel Stack] 3" >>

\* the profiler printed that aggregate without a word about the kernel stack
C7_Witness ==
    /\ Reported /\ args.folded /\ BothScopes
    /\ \E i \in 1 .. Len(out.items) :
          /\ out.items[i].key.kernel_stack_id = -ENOMEM
          /\ out.items[i].val = 3
          /\ out.blocks[i] = << "w;f1;f2 3" >>

\* the part of a folded line that stands for one scope, with `marked` telling
\* whether a negative id gets the placeholder
ScopePart(id, frames, placeholder, marked) ==
    IF id >= 0 THEN frames
    ELSE IF marked THEN << placeholder >> ELSE << >>
FoldedExpected(e, umarked, kmarked) ==
    LET upart == IF ~args.user_stack THEN << >>
                 ELSE ScopePart(e.user_stack_id,
                                SymAll(reversed(walk(stack_traces, e.user_stack_id))),
                                "[Missed User Stack]", umarked)
        kpart == IF ~args.kernel_stack THEN << >>
                 ELSE ScopePart(e.kernel_stack_id,
                                KsymAll(reversed(walk(stack_traces, e.kernel_stack_id))),
                                "[Missed Kernel Stack]", kmarked)
        delim == IF BothScopes /\ e.user_stack_id >= 0 /\ e.kernel_stack_id >= 0
                 THEN << "-" >> ELSE << >>
    IN  join(";", << e.name >> \o upart \o delim \o kpart) \o " 1"

C8_WitnessPlaceholder ==
    /\ Polled /\ args.folded /\ args.user_stack /\ ~args.kernel_stack
    /\ out.items[1].user_stack_id = -EEXIST
    /\ out.blocks = << << "w;[Missed User Stack] 1" >> >>

\* C9, as stated: with -U and -K together a submitted record carries, for
\* each scope, the id that interning the stack captured for that scope
\* returns.
C9_BothIdsComeFromInterning ==
    [][\A t \in Threads, rv \in Retvals, us \in UserStacks \cup { NoStack },
          ks \in KernelStacks \cup { NoStack }, ip \in RegsIps :
          (/\ IsTracer(args) /\ args.user_stack /\ args.kernel_stack
           /\ trace_return_submit(t, rv, us, ks, ip)
           /\ Len(events') > Len(events)) =>
              LET ev == Decode(args, events'[Len(events')])
                  ug == get_stackid(stack_traces, us, FALSE)
                  kg == get_stackid(ug.st, ks, FALSE)
              IN  ev.user_stack_id = ug.id /\ ev.kernel_stack_id = kg.id
      ]_vars

\* with -U and -K a record was rendered whose kernel id is the literal -1
C9_Witness ==
    /\ Polled /\ args.user_stack /\ args.kernel_stack
    /\ out.items[1].kernel_stack_id = -1
    /\ out.items[1].user_stack_id >= 0

\* the lines of one scope in the multi-line output
FrameLines(names) == [i \in 1 .. Len(names) |-> "    " \o names[i]]

\* C10, as stated, for the tracer: in multi-line mode a record is rendered as
\* the kernel frames when -K was given, a separator when both scopes were
\* given and are present, the user frames when -U was given, then the
\* summary line.
C10_TreeOrder ==
    LET e == out.items[1]
        uok == args.user_stack /\ e.user_stack_id >= 0
        kok == args.kernel_stack /\ e.kernel_stack_id >= 0
    IN  (/\ Polled /\ ~args.folded
         /\ args.user_stack => e.user_stack_id >= 0
         /\ (args.kernel_stack /\ ~args.user_stack) => e.kernel_stack_id >= 0) =>
            /\ ~out.raised
            /\ out.blocks = <<
                  (IF kok THEN FrameLines(KsymAll(walk(stack_traces, e.kernel_stack_id)))
                   ELSE << >>)
                  \o (IF uok /\ kok THEN << "    --" >> ELSE << >>)
                  \o (IF uok THEN FrameLines(SymAll(walk(stack_traces, e.user_stack_id)))
                      ELSE << >>)
                  \o << SummaryLine(e.name, U64Str(e.pid)) >> >>

\* with -K alone the rendering of a record with a stored kernel stack ended in
\* an exception before any line of the stack was printed
C10_Witness ==
    /\ Polled /\ ~args.folded /\ args.kernel_stack /\ ~args.user_stack
    /\ out.items[1].kernel_stack_id >= 0
    /\ out.raised /\ out.blocks = << << >> >>

\* with -U and -K the rendering of a record with a stored user stack printed
\* the summary line and no frame
C10_WitnessBoth ==
    /\ Polled /\ ~args.folded /\ args.kernel_stack /\ args.user_stack
    /\ out.items[1].user_stack_id >= 0
    /\ Len(out.blocks[1]) = 1

(***************************************************************************)
(* Properties of the report and of the stack map.                          *)
(***************************************************************************)
ReportStep == ~IsTracer(args) /\ phase = "run" /\ phase' = "done"

\* C11: when the profiler ends, every entry of counts is rendered exactly
\* once and the entries are rendered in non-decreasing order of count, so an
\* entry with the largest count comes last.
C11_ReportSortedOnce ==
    [][ReportStep =>
        LET q == out'.items
            n == Len(q)
        IN  /\ n = Cardinality(counts)
            /\ { q[i] : i \in 1 .. n } = counts
            /\ \A i, j \in 1 .. n : i < j => q[i].val <= q[j].val
            /\ n > 0 => \A p \in counts : p.val <= q[n].val
            /\ Len(out'.blocks) = n
            /\ \A i \in 1 .. n :
                  out'.blocks[i] = ProfItemLines(args, stack_traces, q[i].key, q[i].val)
      ]_vars

\* two entries with counts 1 and 2 were rendered, the one with count 2 last
C11_Witness ==
    /\ Reported
    /\ Len(out.items) = 2
    /\ out.items[1].val = 1 /\ out.items[2].val = 2
    /\ Len(out.blocks) = 2

\* C12, as stated: while a stack map lives, an id that was handed out keeps
\* resolving to the stack that was interned under it, so two different
\* stacks never get the same id: no step replaces a stored stack.
C12_IdKeepsItsStack ==
    [][\A b \in Buckets :
          stack_traces[b] # NoStack => stack_traces'[b] = stack_traces[b]
      ]_vars

StoreFull(st) == StoredCount(st) >= StackStorageSize
Stored(st, trace) == \E b \in Buckets : st[b] = trace
AllStacks == UserStacks \cup KernelStacks

RequestedIds(k) ==
    (IF ~args.user_stacks_only THEN { k.kernel_stack_id } ELSE {})
      \cup (IF ~args.kernel_stacks_only THEN { k.user_stack_id } ELSE {})
Affected == { p \in counts : \E id \in RequestedIds(p.key) : id < 0 /\ id # -EFAULT }
Exhausted == { p \in Affected : -ENOMEM \in RequestedIds(p.key) }

\* C14: when the profiler's run has ended, a warning is printed iff some
\* entry has, for a requested scope, a negative id other than -EFAULT; the
\* warning states the number of such entries; the hint to raise the stack
\* storage size is in it iff one of those entries carries -ENOMEM.
C14_WarningCountsMissingStacks ==
    Reported =>
      /\ (out.warning # << >>) <=> (Affected # {})
      /\ Affected # {} =>
            out.warning =
              << "WARNING: " \o ToString(Cardinality(Affected))
                 \o " stack traces could not be displayed."
                 \o (IF Exhausted # {}
                     THEN " Consider increasing --stack-storage-size." ELSE "") >>

\* a report over two entries: one with a faulted user stack, which is not
\* counted, and one whose kernel stack found the map full
C14_Witness ==
    /\ Reported /\ BothScopes
    /\ Cardinality(counts) = 2
    /\ Cardinality(Affected) = 1
    /\ \E p \in counts \ Affected : p.key.user_stack_id = -EFAULT
    /\ out.warning =
         << "WARNING: 1 stack traces could not be displayed. Consider increasing --stack-storage-size." >>

(***************************************************************************)
(* Properties of the end of a run and of the full channel and table.       *)
(***************************************************************************)
\* C15, as stated: the step that ends the program after a stop signal leaves
\* nothing buffered unrendered: the tracer's perf buffer holds no record
\* that was not printed, and the profiler's report has exactly one block for
\* every entry the table held.
C15_StopDrainsBuffered ==
    [][(phase = "run" /\ phase' = "done") =>
          IF IsTracer(args) THEN events' = << >>
          ELSE /\ Len(out'.items) = Cardinality(counts)
               /\ { out'.items[i] : i \in 1 .. Len(out'.items) } = counts
      ]_vars

\* the tracer has ended and a submitted record is still in the perf buffer
C15_Witness == IsTracer(args) /\ phase = "done" /\ events # << >> /\ nsubmit > 0

Saturated == Len(events) >= PerfBufCap

TableFull == Cardinality(entryinfo) >= MaxPending
\* what the program itself keeps: maps, buffers, positions and output
ProgramState ==
    <<entryinfo, stack_traces, retctx, events, lost, earliest_ts, counts, cpuctx,
      phase, out>>
EntryHook(t) ==
    \/ \E id \in ProbeIds, regs \in ArgVectors, reuse \in Threads \cup { Free } :
          ~TGID_FILTER(t) /\ trace_entry(t, id, regs, reuse)
    \/ \E id \in ProbeIds : prof_trace_entry(t, id)

\* C17, as stated: with the pending-call table at capacity, an entry hook of
\* a thread without an entry ends normally, leaves the pending calls as they
\* are and is counted as a dropped observation, so it leaves a record of
\* itself in the program's state; an entry hook of a thread that has an entry
\* replaces it.
C17_FullTableCountsDroppedEntry ==
    [][\A t \in Threads :
          (TableFull /\ EntryHook(t)) =>
             IF MapHas(entryinfo, t)
             THEN /\ MapHas(entryinfo', t)
                  /\ MapLookup(entryinfo', t).start_ns = now
                  /\ \A u \in Threads \ { t } :
                        MapHas(entryinfo, u) =>
                           /\ MapHas(entryinfo', u)
                           /\ MapLookup(entryinfo', u) = MapLookup(entryinfo, u)
             ELSE /\ entryinfo' = entryinfo
                  /\ ProgramState' # ProgramState
      ]_vars

(***************************************************************************)
(* Properties of the threshold, the aggregate key and the kernel ip.       *)
(***************************************************************************)
OnlyMs == args.min_ms # NotGiven /\ args.min_us = NotGiven
OnlyUs == args.min_us # NotGiven /\ args.min_ms = NotGiven
Neither == args.min_ms = NotGiven /\ args.min_us = NotGiven

\* C18, as stated: the threshold the hooks filter with is min_ms x 1,000,000
\* when -m is given, for every value including 0, min_us x 1,000 when -u is
\* given, and 1,000,000 when neither is given; the header and the LAT column
\* use the unit of the option that gave the threshold.
C18_ThresholdAndUnitFollowOption ==
    IsTracer(args) =>
      /\ OnlyMs => /\ DURATION_NS = IntTrunc(args.min_ms[1] * 1000000)
                   /\ time_designator(args) = "ms"
                   /\ time_multiplier(args) = 1000000
                   /\ Header(args)[1].unit = "ms"
      /\ OnlyUs => /\ DURATION_NS = IntTrunc(args.min_us[1] * 1000)
                   /\ time_designator(args) = "us"
                   /\ time_multiplier(args) = 1000
                   /\ Header(args)[1].unit = "us"
      /\ Neither => /\ DURATION_NS = 1000000
                    /\ time_designator(args) = "ms"
                    /\ time_multiplier(args) = 1000000

\* with -m 0 a call of 1 ns returned and was discarded as too fast
C18_Witness ==
    /\ IsTracer(args) /\ OnlyMs /\ args.min_ms = <<0>>
    /\ now = 2 /\ nentry = 1 /\ entryinfo = { } /\ ~missed
    /\ retctx[<<1, 1>>].pc = "idle" /\ nslow = 0 /\ nsubmit = 0

InStore(t) == cpuctx[t].pc = "store"

\* C19, as stated: two counted ticks increment the same entry of counts only
\* if they agree on the thread id, the thread name, both stack ids and the
\* kernel ip; two ticks taken on different threads never have the same key,
\* even for threads of one process with equal names and stacks.
C19_ThreadsNeverShareEntry ==
    \A t, u \in Threads :
       (InStore(t) /\ InStore(u) /\ t[2] # u[2]) => cpuctx[t].key # cpuctx[u].key

\* ticks on threads 1 and 2 of process 1, both about to increment one entry
C19_Witness ==
    /\ ~IsTracer(args)
    /\ InStore(<<1, 1>>) /\ InStore(<<1, 2>>)
    /\ cpuctx[<<1, 1>>].key = cpuctx[<<1, 2>>].key
    /\ cpuctx[<<1, 1>>].key.pid = 1
    /\ Cardinality(counts) = 1

\* the kernel ip the claim expects for a kernel stack id and a captured ip;
\* `strict` tells whether an ip equal to the boundary counts as below it
ExpectedIp(ksid, ip, strict) ==
    IF ksid >= 0 /\ (ip > PAGE_OFFSET \/ (~strict /\ ip = PAGE_OFFSET)) THEN ip ELSE 0
\* the kernel frames the claim expects in the rendering of a key
ExpectedKernelFrames(k) ==
    IF k.kernel_stack_id < 0 THEN << >>
    ELSE (IF k.kernel_ip # 0 THEN << k.kernel_ip >> ELSE << >>)
         \o walk(stack_traces, k.kernel_stack_id)
KernelIpSteps(strict) ==
    /\ \A t \in Threads :
          /\ (KERNEL_STACKS /\ retctx[t].pc = "submit" /\ Len(events') > Len(events)) =>
                \A rv \in Retvals, us \in UserStacks \cup { NoStack },
                   ks \in KernelStacks \cup { NoStack }, ip \in RegsIps :
                   trace_return_submit(t, rv, us, ks, ip) =>
                      LET ev == Decode(args, events'[Len(events')]) IN
                      ev.kernel_ip = <<0, ExpectedIp(ev.kernel_stack_id, ip, strict)>>
          /\ (~IsTracer(args) /\ cpuctx[t].pc = "idle" /\ cpuctx'[t].pc = "store") =>
                \A us \in UserStacks \cup { NoStack },
                   ks \in KernelStacks \cup { NoStack }, ip \in RegsIps :
                   do_perf_event(t, us, ks, ip) =>
                      LET k == cpuctx'[t].key IN
                      k.kernel_ip = ExpectedIp(k.kernel_stack_id, ip, strict)
    /\ (ReportStep /\ ~args.folded) =>
          \A i \in 1 .. Len(out'.items) :
             LET k == out'.items[i].key
                 kfr == ExpectedKernelFrames(k)
                 ufr == IF k.user_stack_id < 0 THEN << >>
                        ELSE walk(stack_traces, k.user_stack_id)
                 sep == IF ProfNeedDelimiter(args) /\ kfr # << >> THEN 1 ELSE 0
             IN  /\ Len(out'.blocks[i]) = Len(kfr) + sep + Len(ufr) + 3
                 /\ \A j \in 1 .. Len(kfr) :
                       out'.blocks[i][j] = "    " \o aksym(args, kfr[j])

\* C20, as stated: with a valid kernel stack id the recorded kernel ip is the
\* captured ip when that is not below PAGE_OFFSET and 0 when it is below;
\* with a negative kernel stack id it is 0; the profiler renders a non-zero
\* kernel ip as the first kernel frame and adds no frame for 0.
C20_KernelIpNotBelowBoundary == [][KernelIpSteps(FALSE)]_vars

\* C20, amended: as above, but the captured ip is recorded only when it is
\* above PAGE_OFFSET; an ip equal to PAGE_OFFSET is recorded as 0.
C20_KernelIpAboveBoundary == [][KernelIpSteps(TRUE)]_vars

\* a multi-line report of an entry with a stored kernel stack and kernel ip
\* 103, whose block begins with the frame of 103, and of an entry with a
\* stored kernel stack and kernel ip 0
C20_Witness ==
    /\ Reported /\ ~args.folded
    /\ \E i \in 1 .. Len(out.items) :
          /\ out.items[i].key.kernel_stack_id >= 0
          /\ out.items[i].key.kernel_ip = 103
          /\ out.blocks[i][1] = "    " \o aksym(args, 103)
          /\ out.blocks[i][2] = "    " \o aksym(args, 102)
    /\ \E i \in 1 .. Len(out.items) :
          /\ out.items[i].key.kernel_stack_id >= 0
          /\ out.items[i].key.kernel_ip = 0
          /\ out.blocks[i][1] = "    " \o aksym(args, 102)

(***************************************************************************)
(* Properties of the shared stack map, the filter and the record layout.   *)
(***************************************************************************)
\* the stored stacks of each address space, told apart by their addresses
KernelStored ==
    Cardinality({ b \in Buckets : stack_traces[b] # NoStack
                                    /\ stack_traces[b][1] > PAGE_OFFSET })
UserStored ==
    Cardinality({ b \in Buckets : stack_traces[b] # NoStack
                                    /\ stack_traces[b][1] <= PAGE_OFFSET })

\* C21, as stated: with both scopes captured, user stacks and kernel stacks
\* are kept in independent stores, so a kernel stack is refused for lack of
\* room only when the kernel stacks stored fill the capacity, whatever the
\* number of user stacks stored, and the same with the scopes exchanged.
C21_ScopesHaveOwnCapacity ==
    \A t \in Threads :
       (~IsTracer(args) /\ BothScopes /\ InStore(t)) =>
          /\ cpuctx[t].key.kernel_stack_id = -ENOMEM => KernelStored >= StackStorageSize
          /\ cpuctx[t].key.user_stack_id = -ENOMEM => UserStored >= StackStorageSize

\* three user stacks fill the map and a tick's kernel stack, the first one
\* ever captured, is refused with -ENOMEM
C21_Witness ==
    /\ ~IsTracer(args) /\ BothScopes
    /\ UserStored = StackStorageSize /\ KernelStored = 0
    /\ \E t \in Threads :
          InStore(t) /\ cpuctx[t].key.kernel_stack_id = -ENOMEM

\* a step of a tick: one that passed the filter and found a pending call, or
\* the store that ends a counted one
TickStep == ~IsTracer(args) /\ (nhit' # nhit \/ cpuctx' # cpuctx)
PendingAge(t) == now - MapLookup(entryinfo, t).start_ns

\* C22: the profiler counts a tick only if the thread's pending call started
\* at least 1,000,000 ns before it, whatever the options; a tick on a thread
\* whose pending call is younger changes neither counts nor entryinfo; no
\* tick removes or alters a pending call; an entry leaves entryinfo only in
\* trace_return, which prints, submits and counts nothing.
C22_TickCountsOnlyOldCalls ==
    [][/\ \A t \in Threads :
             /\ (~IsTracer(args) /\ cpuctx[t].pc = "idle" /\ cpuctx'[t].pc = "store") =>
                   /\ MapHas(entryinfo, t)
                   /\ PendingAge(t) >= 1000000
             /\ (~IsTracer(args) /\ cpuctx[t].pc = "idle" /\ MapHas(entryinfo, t)
                   /\ PendingAge(t) < 1000000 /\ nhit' # nhit) =>
                   \A us \in UserStacks \cup { NoStack },
                      ks \in KernelStacks \cup { NoStack }, ip \in RegsIps :
                      do_perf_event(t, us, ks, ip) =>
                         /\ counts' = counts
                         /\ entryinfo' = entryinfo
                         /\ stack_traces' = stack_traces
                         /\ cpuctx' = cpuctx
             /\ (~IsTracer(args) /\ MapHas(entryinfo, t) /\ ~MapHas(entryinfo', t)) =>
                   /\ prof_trace_return(t)
                   /\ counts' = counts /\ events' = events /\ out' = out
       /\ TickStep => entryinfo' = entryinfo
      ]_vars

\* a tick found a pending call one nanosecond old and counted nothing; an
\* earlier tick of an old call was counted, and the pending call is still there
C22_Witness ==
    /\ ~IsTracer(args)
    /\ nhit = 2 /\ nold = 1 /\ TicksAtRest
    /\ SumVals(counts) = 1
    /\ now = 1000002
    /\ \E t \in Threads : MapHas(entryinfo, t) /\ PendingAge(t) = 1

\* the names of a layout's fields after the six that every record has
OptionalNames(fields) == [i \in 1 .. Len(fields) - 6 |-> fields[i + 6][1]]
\* the fields of a record as the hook wrote them: read at struct data_t's offsets
Written(a, mem) ==
    LET fields == CFields(a)
        offs == Offsets(fields)
        names == { fields[i][1] : i \in 1 .. Len(fields) }
    IN  [n \in names |->
            LET i == CHOOSE j \in 1 .. Len(fields) : fields[j][1] = n
            IN  ReadField(mem, fields[i][2], offs[i])]
LayoutNames == { "args", "user_stack_id", "kernel_stack_id", "kernel_ip" }

\* C23, as stated: for every combination of -a, -U and -K the optional fields
\* of the record the hook writes are in the order in which the reporter's
\* layout reads them, so the reporter reads in args, user_stack_id,
\* kernel_stack_id and kernel_ip the values the hook wrote there.
C23_ReaderLayoutIsHookLayout ==
    IsTracer(args) =>
       \A i \in 1 .. Len(events) :
          /\ OptionalNames(PyFields(args)) = OptionalNames(CFields(args))
          /\ \A n \in LayoutNames \cap DOMAIN Decode(args, events[i]) :
                Decode(args, events[i])[n] = Written(args, events[i])[n]

\* with -a and -U a queued record whose user stack was stored under an id is
\* read by the reporter with another user_stack_id
C23_Witness ==
    /\ IsTracer(args) /\ Truthy(args.arguments) /\ args.user_stack
    /\ events # << >>
    /\ Written(args, events[1]).user_stack_id >= 0
    /\ Decode(args, events[1]).user_stack_id # Written(args, events[1]).user_stack_id

RelativeMode == IsTracer(args) /\ args.timestamp /\ ~args.time /\ ~args.folded

\* C24, as stated: with -t, in whatever order the records reach the reporter,
\* the first record printed shows 0 and every record printed shows a time
\* that is not negative: earliest_ts is never later than the start of a
\* printed record.
C24_TimestampsNeverNegative ==
    (RelativeMode /\ Polled) =>
       /\ out.header[1].time[1] >= 0
       /\ earliest_ts <= out.items[1].start_ns[2]
       /\ (nsubmit = 1 /\ lost = 0) => out.header[1].time[1] = 0

\* the call that began at 2 returned and was printed first; the call that
\* began at 1 was printed after it with the time -1
C24_Witness ==
    /\ RelativeMode /\ Polled
    /\ nsubmit = 2 /\ lost = 0 /\ events = << >>
    /\ earliest_ts = 2
    /\ out.items[1].start_ns[2] = 1
    /\ out.header[1].time[1] = -1

====
